---- MODULE Spec2Model ----
(***************************************************************************)
(* Model of the two-alternative-choice maze controller                     *)
(* (2ac_gpioserver.py, 2ac_server.py, 2ac_client.py).                      *)
(*                                                                         *)
(*   Trials      reward-side allocator            (SpecAlloc, Spec)        *)
(*   Monitor     sensor flags, listener thread,   (Spec)                   *)
(*               wait_for_* polling loops                                  *)
(*   Controller  per-actuator queue and player    (SpecSched)              *)
(*               thread, Device.end                                        *)
(*   main        the trial loop                   (Spec)                   *)
(*                                                                         *)
(* Spec is the session as main() runs it: the trial loop, the listener     *)
(* thread, the clients that connect to it and the five command queues the  *)
(* loop fills.  SpecSched is one Controller instance inside its own        *)
(* "with" block: its player thread against a producer that calls play(),   *)
(* swaps the speaker's sound and finally end().  SpecAlloc is a Trials     *)
(* instance called repeatedly.                                             *)
(*                                                                         *)
(* The trial loop reads nothing a player thread writes (it only appends to *)
(* the queues), so Spec leaves the player threads out and stops at the     *)
(* point where main leaves the loop; the players and Device.end are in     *)
(* SpecSched.                                                              *)
(*                                                                         *)
(* SpecWait is one thread calling one wait_for_* method, with a timeout or *)
(* without, against the listener and its clients; it states weak fairness  *)
(* of the calling thread and of the clock.  SpecScope is the "with"        *)
(* statement of main: the six devices started, the body reduced to the     *)
(* play() calls it makes and the ways it is left, then the chain of        *)
(* Device.end calls.  SpecSchedFaults is SpecSched with on()/off() that    *)
(* can raise; SpecFaults is Spec from the start of the listener thread,    *)
(* with bind/listen, recv and sendall that can raise.                      *)
(*                                                                         *)
(* SpecGate is SpecSched with schedules that wait on a gate Event.         *)
(* SpecSeed is two runs of a program that builds a Trials object from a    *)
(* seed and calls it, each run with its own generator.  SpecServer is Spec *)
(* with the trial loop of 2ac_server.py.                                   *)
(*                                                                         *)
(* Line numbers are those of 2ac_gpioserver.py.  Its line 562 (a log       *)
(* message) lacks a closing parenthesis; the model follows the statements  *)
(* of main as they are written around it.  Monitor and Trials are the same *)
(* in 2ac_server.py; its trial loop reads the timer earlier and calls      *)
(* run() where 2ac_gpioserver.py calls play().                             *)
(*                                                                         *)
(* Every Event.is_set/set/clear and every Queue.put/get is one atomic      *)
(* step.  Where one model step reads two Events (the loop test of          *)
(* wait_for_nose_poke, nose_poke_side) the flags read can only rise during *)
(* the read, the only step that lowers them being the reader's own         *)
(* clear_nose_poke, so the values read are those of one instant.  sleep    *)
(* calls are folded into the step before them.                             *)
(***************************************************************************)
EXTENDS Integers, Sequences, FiniteSets, TLC

VARIABLES
    \* ---- Trials
    max_repeat,        \* Trials.max_repeat
    buffer,            \* Trials.buffer
    i,                 \* Trials.i
    reward_position,   \* Trials.reward_position (None, 0 or 1)
    raised,            \* next() raised TypeError (abs(None - 1))
    sides,             \* history: the sides next() returned, in order
    forced,            \* history: whether the last next() took the flip branch
    rng,               \* SpecSeed: the generator "random" of each of two runs
    run,               \* SpecSeed: the caller and its Trials object, per run
    \* ---- Monitor
    in_trial_zone,     \* Monitor.in_trial_zone (Event)
    left_nose_poke,    \* Monitor.left_nose_poke (Event)
    right_nose_poke,   \* Monitor.right_nose_poke (Event)
    stop,              \* Monitor.stop (Event)
    l_pc,              \* position of the listener thread in open_connection
    data,              \* open_connection's local "data"
    pending,           \* connections made and written to, not yet accepted
    nconn,             \* number of client connections made so far
    echoed,            \* what was sent back on the connection being handled
    cleared,           \* history: clear_nose_poke ran since the last transition
    \* ---- main
    o_pc,              \* position of the main thread in the trial loop
    correct,           \* main's local "correct"
    nose_poke,         \* main's local "nose_poke"
    outcome,           \* main's local "outcome"
    side,              \* what nose_poke_side() returned to main in this trial
    t,                 \* main's local "t" (reaction time, seconds)
    wait,              \* the wait_for_* call in progress
    w_timeout,         \* its "timeout" argument
    w_t,               \* seconds elapsed since its t0
    w_ret,             \* history: the last wait_for_* return (wait, reason, value)
    aborted,           \* history: some wait_for_* returned from its stop branch
    n_reward,          \* history: reward commands enqueued in this trial
    slept,             \* history: seconds of inter-trial sleep in this trial
    \* ---- Controllers
    Q,                 \* Controller.Q of each actuator
    nput,              \* history: number of play() calls made on each actuator
    sound,             \* SoundPlayer.sound of the speaker
    c_stop,            \* Controller.stop (Event) of each actuator
    p_pc,              \* position of each actuator's player thread
    cur,               \* the schedule the player took from Q last
    calls,             \* history: the on()/off() calls made on each actuator
    sut,               \* SpecSched: the Controller inside the "with" block
    h_pc,              \* SpecSched: position of the thread owning that block
    end_phase,         \* history: where the player was when end() set stop
    \* ---- across threads
    w_seen             \* history: the awaited flag state held at some instant
                       \*          of the wait_for_* call in progress

seedVars    == << rng, run >>
trialVars   == << max_repeat, buffer, i, reward_position, raised, sides, forced,
                 seedVars >>
monitorVars == << in_trial_zone, left_nose_poke, right_nose_poke, stop,
                  l_pc, data, pending, nconn, echoed, cleared >>
mainVars    == << o_pc, correct, nose_poke, outcome, side, t, wait, w_timeout,
                  w_t, w_ret, aborted, n_reward, slept >>
queueVars   == << Q, nput, sound >>
playerVars  == << c_stop, p_pc, cur, calls, sut, h_pc, end_phase >>
ctrlVars    == << queueVars, playerVars >>
histVars    == << w_seen >>

vars == << trialVars, monitorVars, mainVars, ctrlVars, histVars >>

\* ------------------------------------------------------------------ bounds
MaxRepeatBound == 3    \* SpecAlloc: max_repeat ranges over 0..MaxRepeatBound
MaxCalls == 6          \* SpecAlloc: number of next() calls explored
MaxTrials == 2         \* Spec: trials the loop may start
MaxConns == 4          \* Spec: client connections made during the session
MaxPending == 1        \* Spec: connections waiting in the listen backlog
TickLen == 5           \* Spec: seconds that pass in one step of the clock
MaxCmds == 3           \* SpecSched: play() calls made on the Controller
MaxTimeout == 10       \* SpecWait: the largest timeout a wait_for_* call is given
MaxWaitConns == 2      \* SpecWait: client connections made around the call
MaxScopeConns == 1     \* SpecScope: client connections made during the block
MaxScopeCmds == 1      \* SpecScope: play() calls made inside the block
StreamLen == 4         \* SpecSeed: period of the stream of a generator
MaxEntropy == 1        \* SpecSeed: import-time states of a generator, 0..MaxEntropy

\* ------------------------------------------------------------------ Trials
None == -1

positions == << "left", "right" >>

DefaultMaxRepeat == 3

Range(s) == { s[k] : k \in 1..Len(s) }

\* Python's s[start:] for any integer start
PySliceFrom(s, start) ==
    LET n == Len(s)
        lo == IF start < 0
                 THEN (IF start + n < 0 THEN 0 ELSE start + n)
                 ELSE (IF start > n THEN n ELSE start)
    IN  SubSeq(s, lo + 1, n)

\* mutant of AllSame: the flip is tested against one entry more than is kept
AllSameOffByOne(buf) == Cardinality(Range(buf)) = 1 /\ Len(buf) > max_repeat

\* mutant of AllSame: an empty buffer also selects the flip branch
AllSameOrEmpty(buf) == Cardinality(Range(buf)) <= 1

\* the test that selects the flip branch of Trials.next
AllSame(buf) == Cardinality(Range(buf)) = 1

Abs(x) == IF x < 0 THEN -x ELSE x

\* Trials.next with the value r that random.randint(0,1) returns when called
TrialsNext(r) ==
    IF AllSame(buffer) /\ reward_position = None
    THEN \* abs(None - 1): TypeError, nothing assigned
         /\ raised' = TRUE
         /\ UNCHANGED << max_repeat, buffer, i, reward_position, sides, forced >>
         /\ UNCHANGED seedVars
    ELSE LET rp == IF AllSame(buffer) THEN Abs(reward_position - 1) ELSE r
         IN  /\ reward_position' = rp
             /\ buffer' = PySliceFrom(Append(buffer, rp), -max_repeat)
             /\ i' = i + 1
             /\ sides' = Append(sides, positions[rp + 1])
             /\ forced' = AllSame(buffer)
             /\ UNCHANGED << max_repeat, raised, seedVars >>

TrialsInit(m) ==
    /\ max_repeat = m
    /\ buffer = << >>
    /\ i = 0
    /\ reward_position = None
    /\ raised = FALSE
    /\ sides = << >>
    /\ forced = FALSE
    /\ rng = << >>
    /\ run = << >>

\* ----------------------------------------------------------------- Monitor
STOP            == "0"
MOUSE_IN        == "1"
MOUSE_OUT       == "2"
LEFT_NOSE_POKE  == "3"
RIGHT_NOSE_POKE == "4"

\* what a client may have written when recv returns: the five flags, nothing
\* at all (the peer closed), an unassigned byte, more than one byte
Payloads == { STOP, MOUSE_IN, MOUSE_OUT, LEFT_NOSE_POKE, RIGHT_NOSE_POKE,
              "", "5", "12" }

NoData == "no data"

MonitorInit ==
    /\ in_trial_zone = FALSE
    /\ left_nose_poke = FALSE
    /\ right_nose_poke = FALSE
    /\ stop = FALSE
    /\ l_pc = "loop"
    /\ data = NoData
    /\ pending = << >>
    /\ nconn = 0
    /\ echoed = << >>
    /\ cleared = FALSE

\* the loop condition of each wait_for_* negated, on the flag values z
\* (in_trial_zone), l (left_nose_poke) and r (right_nose_poke)
WaitCondOn(w, z, l, r) ==
    IF w = "entrance" THEN z
    ELSE IF w = "leaving" THEN ~z
    ELSE l \/ r

\* mutant of nose_poke_side: the left flag is tested without the right one
nose_poke_side_left_first(l, r) ==
    IF l THEN "left"
    ELSE IF r THEN "right"
    ELSE "none"

\* Monitor.nose_poke_side on the flag values l (left) and r (right)
nose_poke_side(l, r) ==
    IF l /\ ~r THEN "left"
    ELSE IF r /\ ~l THEN "right"
    ELSE IF l /\ r THEN "both"
    ELSE "none"

\* mutant of Apply: MOUSE_OUT also resets the nose poke flags
ApplyExitClearsPokes(d) ==
    IF d = STOP THEN
        /\ stop' = TRUE
        /\ UNCHANGED << in_trial_zone, left_nose_poke, right_nose_poke >>
    ELSE IF d = MOUSE_IN THEN
        /\ in_trial_zone' = TRUE
        /\ UNCHANGED << stop, left_nose_poke, right_nose_poke >>
    ELSE IF d = MOUSE_OUT THEN
        /\ in_trial_zone' = FALSE
        /\ left_nose_poke' = FALSE
        /\ right_nose_poke' = FALSE
        /\ UNCHANGED stop
    ELSE IF d = LEFT_NOSE_POKE THEN
        /\ left_nose_poke' = TRUE
        /\ UNCHANGED << stop, in_trial_zone, right_nose_poke >>
    ELSE IF d = RIGHT_NOSE_POKE THEN
        /\ right_nose_poke' = TRUE
        /\ UNCHANGED << stop, in_trial_zone, left_nose_poke >>
    ELSE
        /\ stop' = TRUE
        /\ UNCHANGED << in_trial_zone, left_nose_poke, right_nose_poke >>

\* mutant of Apply: a payload that is no flag is logged and ignored
ApplyIgnoreUnknown(d) ==
    IF d = STOP THEN
        /\ stop' = TRUE
        /\ UNCHANGED << in_trial_zone, left_nose_poke, right_nose_poke >>
    ELSE IF d = MOUSE_IN THEN
        /\ in_trial_zone' = TRUE
        /\ UNCHANGED << stop, left_nose_poke, right_nose_poke >>
    ELSE IF d = MOUSE_OUT THEN
        /\ in_trial_zone' = FALSE
        /\ UNCHANGED << stop, left_nose_poke, right_nose_poke >>
    ELSE IF d = LEFT_NOSE_POKE THEN
        /\ left_nose_poke' = TRUE
        /\ UNCHANGED << stop, in_trial_zone, right_nose_poke >>
    ELSE IF d = RIGHT_NOSE_POKE THEN
        /\ right_nose_poke' = TRUE
        /\ UNCHANGED << stop, in_trial_zone, left_nose_poke >>
    ELSE
        UNCHANGED << stop, in_trial_zone, left_nose_poke, right_nose_poke >>

\* the if/elif chain of open_connection on the payload d
Apply(d) ==
    IF d = STOP THEN
        /\ stop' = TRUE
        /\ UNCHANGED << in_trial_zone, left_nose_poke, right_nose_poke >>
    ELSE IF d = MOUSE_IN THEN
        /\ in_trial_zone' = TRUE
        /\ UNCHANGED << stop, left_nose_poke, right_nose_poke >>
    ELSE IF d = MOUSE_OUT THEN
        /\ in_trial_zone' = FALSE
        /\ UNCHANGED << stop, left_nose_poke, right_nose_poke >>
    ELSE IF d = LEFT_NOSE_POKE THEN
        /\ left_nose_poke' = TRUE
        /\ UNCHANGED << stop, in_trial_zone, right_nose_poke >>
    ELSE IF d = RIGHT_NOSE_POKE THEN
        /\ right_nose_poke' = TRUE
        /\ UNCHANGED << stop, in_trial_zone, left_nose_poke >>
    ELSE
        /\ stop' = TRUE
        /\ UNCHANGED << in_trial_zone, left_nose_poke, right_nose_poke >>

\* the bytes conn.sendall writes for the payload d
Echo(d) == d

\* 2ac_client.py: connect and send one payload (the client then blocks in recv)
ClientConnect(d) ==
    /\ l_pc \in { "loop", "accept", "apply", "send" }
    /\ nconn < MaxConns
    /\ Len(pending) < MaxPending
    /\ pending' = Append(pending, d)
    /\ nconn' = nconn + 1
    /\ UNCHANGED << in_trial_zone, left_nose_poke, right_nose_poke, stop,
                    l_pc, data, echoed, cleared >>
    /\ UNCHANGED << trialVars, mainVars, ctrlVars >>
    /\ UNCHANGED histVars

\* while self.running():
ListenerLoop ==
    /\ l_pc = "loop"
    /\ l_pc' = IF ~stop THEN "accept" ELSE "done"
    /\ UNCHANGED << in_trial_zone, left_nose_poke, right_nose_poke, stop,
                    data, pending, nconn, echoed, cleared >>
    /\ UNCHANGED << trialVars, mainVars, ctrlVars >>
    /\ UNCHANGED histVars

\* conn, addr = s.accept(); data = conn.recv(1024)
\* (the client has written its payload, or closed, by the time recv returns)
ListenerAccept ==
    /\ l_pc = "accept"
    /\ pending # << >>
    /\ data' = Head(pending)
    /\ pending' = Tail(pending)
    /\ echoed' = << >>
    /\ l_pc' = "apply"
    /\ UNCHANGED << in_trial_zone, left_nose_poke, right_nose_poke, stop,
                    nconn, cleared >>
    /\ UNCHANGED << trialVars, mainVars, ctrlVars >>
    /\ UNCHANGED histVars

\* mutant of ListenerApply: the echo is reached with the transition not made
ListenerApplyNotYet ==
    /\ l_pc = "apply"
    /\ cleared' = FALSE
    /\ l_pc' = "send"
    /\ UNCHANGED << in_trial_zone, left_nose_poke, right_nose_poke, stop,
                    data, pending, nconn, echoed >>
    /\ UNCHANGED << trialVars, mainVars, ctrlVars, histVars >>

\* if data == self.STOP: ... else: self.stop.set()
ListenerApply ==
    /\ l_pc = "apply"
    /\ Apply(data)
    /\ cleared' = FALSE
    /\ w_seen' = (w_seen \/ (o_pc \in { "w_cond", "w_time", "w_stop" }
                               /\ WaitCondOn(wait, in_trial_zone',
                                             left_nose_poke', right_nose_poke')))
    /\ l_pc' = "send"
    /\ UNCHANGED << data, pending, nconn, echoed >>
    /\ UNCHANGED << trialVars, mainVars, ctrlVars >>

\* conn.sendall(data), then the connection is closed
ListenerSend ==
    /\ l_pc = "send"
    /\ echoed' = Append(echoed, Echo(data))
    /\ l_pc' = "loop"
    /\ UNCHANGED << in_trial_zone, left_nose_poke, right_nose_poke, stop,
                    data, pending, nconn, cleared >>
    /\ UNCHANGED << trialVars, mainVars, ctrlVars >>
    /\ UNCHANGED histVars

\* s.bind(...); s.listen(): ok, or OSError raised in the listener thread,
\* which nothing catches
ListenerBind(ok) ==
    /\ l_pc = "bind"
    /\ l_pc' = IF ok THEN "loop" ELSE "bind_failed"
    /\ UNCHANGED << in_trial_zone, left_nose_poke, right_nose_poke, stop,
                    data, pending, nconn, echoed, cleared >>
    /\ UNCHANGED << trialVars, mainVars, ctrlVars, histVars >>

\* conn.recv(1024) raises (the peer reset the connection): nothing in
\* open_connection catches it, the listener thread ends
ListenerRecvRaises ==
    /\ l_pc = "accept"
    /\ pending # << >>
    /\ pending' = Tail(pending)
    /\ l_pc' = "io_failed"
    /\ UNCHANGED << in_trial_zone, left_nose_poke, right_nose_poke, stop,
                    data, nconn, echoed, cleared >>
    /\ UNCHANGED << trialVars, mainVars, ctrlVars, histVars >>

\* conn.sendall(data) raises (the peer is gone): the listener thread ends
ListenerSendRaises ==
    /\ l_pc = "send"
    /\ l_pc' = "io_failed"
    /\ UNCHANGED << in_trial_zone, left_nose_poke, right_nose_poke, stop,
                    data, pending, nconn, echoed, cleared >>
    /\ UNCHANGED << trialVars, mainVars, ctrlVars, histVars >>

\* -------------------------------------------------------------- Controller
Actuators == { "L_light", "R_light", "R_dispenser", "L_dispenser", "speaker" }

Sounds == { "WHITE_NOISE", "HIGH_TONE_WITH_DISTRACTOR", "LOW_TONE_WITH_DISTRACTOR" }

NoCmd == [id |-> 0]

\* the Controller objects as their constructors leave them; the player of
\* each actuator in running is started (Device.start), the others are not
CtrlInit(running, s) ==
    /\ Q = [a \in Actuators |-> << >>]
    /\ nput = [a \in Actuators |-> 0]
    /\ sound = "WHITE_NOISE"
    /\ c_stop = [a \in Actuators |-> FALSE]
    /\ p_pc = [a \in Actuators |-> IF a \in running THEN "loop" ELSE "new"]
    /\ cur = [a \in Actuators |-> NoCmd]
    /\ calls = [a \in Actuators |-> << >>]
    /\ sut = s
    /\ h_pc = IF s = "none" THEN "none" ELSE "body"
    /\ end_phase = "none"

\* mutant of Put: the new schedule goes to the head of the queue
PutFront(q, c) == << c >> \o q

\* Queue.put
Put(q, c) == Append(q, c)

\* Controller.play(duration, condition=..., condition_timeout=...) on actuator
\* a, offset and rest defaulted: the tuple put on the queue.  The condition
\* Event is held as its state (set or not).  put_sound is history, not part of
\* the tuple: the value of self.sound at the time of the call.
schedule(a, duration, condition, condition_timeout) ==
    /\ Q' = [Q EXCEPT ![a] = Put(@, [id |-> nput[a] + 1,
                                      duration |-> duration,
                                      offset |-> 0,
                                      rest |-> 0,
                                      condition |-> condition,
                                      condition_timeout |-> condition_timeout,
                                      put_sound |-> sound])]
    /\ nput' = [nput EXCEPT ![a] = @ + 1]

\* Controller.play(duration) on actuator a, the other arguments defaulted:
\* the condition is a fresh Event that is already set
play(a, duration) == schedule(a, duration, TRUE, None)

\* Queue.get by the only consumer: the entry returned and the rest
Get(q) == [item |-> Head(q), rest |-> Tail(q)]

\* the argument on()/off() acts on: self.sound for the SoundPlayer
CallArg(a) == IF a = "speaker" THEN sound ELSE "n/a"

\* mutant of PlayerLoop: the loop is left only once the queue is empty
PlayerLoopDrains(a) ==
    /\ p_pc[a] = "loop"
    /\ p_pc' = [p_pc EXCEPT ![a] = IF ~c_stop[a] \/ Q[a] # << >> THEN "poll"
                                                                  ELSE "done"]
    /\ UNCHANGED << c_stop, cur, calls, sut, h_pc, end_phase >>
    /\ UNCHANGED << trialVars, monitorVars, mainVars, queueVars >>
    /\ UNCHANGED histVars

\* while self.running():
PlayerLoop(a) ==
    /\ p_pc[a] = "loop"
    /\ p_pc' = [p_pc EXCEPT ![a] = IF ~c_stop[a] THEN "poll" ELSE "done"]
    /\ UNCHANGED << c_stop, cur, calls, sut, h_pc, end_phase >>
    /\ UNCHANGED << trialVars, monitorVars, mainVars, queueVars >>
    /\ UNCHANGED histVars

\* if not self.Q.empty(): duration, ... = self.Q.get()
PlayerPoll(a) ==
    /\ p_pc[a] = "poll"
    /\ IF Q[a] # << >>
          THEN /\ cur' = [cur EXCEPT ![a] = Get(Q[a]).item]
               /\ Q' = [Q EXCEPT ![a] = Get(Q[a]).rest]
               /\ p_pc' = [p_pc EXCEPT ![a] = "wait"]
          ELSE /\ p_pc' = [p_pc EXCEPT ![a] = "loop"]
               /\ UNCHANGED << cur, Q >>
    /\ UNCHANGED << nput, sound, c_stop, calls, sut, h_pc, end_phase >>
    /\ UNCHANGED << trialVars, monitorVars, mainVars >>
    /\ UNCHANGED histVars

\* condition.wait(condition_timeout); time.sleep(offset)
PlayerWait(a) ==
    /\ p_pc[a] = "wait"
    /\ cur[a].condition \/ cur[a].condition_timeout # None
    /\ p_pc' = [p_pc EXCEPT ![a] = "on"]
    /\ UNCHANGED << c_stop, cur, calls, sut, h_pc, end_phase >>
    /\ UNCHANGED << trialVars, monitorVars, mainVars, queueVars >>
    /\ UNCHANGED histVars

\* mutant of PlayerOn: the on-phase is cut short when stop is set
PlayerOnCancellable(a) ==
    /\ p_pc[a] = "on"
    /\ calls' = [calls EXCEPT ![a] =
                    Append(@, [op |-> "on", id |-> cur[a].id, arg |-> CallArg(a)])]
    /\ p_pc' = [p_pc EXCEPT ![a] = IF c_stop[a] THEN "done" ELSE "off"]
    /\ UNCHANGED << c_stop, cur, sut, h_pc, end_phase >>
    /\ UNCHANGED << trialVars, monitorVars, mainVars, queueVars >>
    /\ UNCHANGED histVars

\* self.on(); time.sleep(duration)
PlayerOn(a) ==
    /\ p_pc[a] = "on"
    /\ calls' = [calls EXCEPT ![a] =
                    Append(@, [op |-> "on", id |-> cur[a].id, arg |-> CallArg(a)])]
    /\ p_pc' = [p_pc EXCEPT ![a] = "off"]
    /\ UNCHANGED << c_stop, cur, sut, h_pc, end_phase >>
    /\ UNCHANGED << trialVars, monitorVars, mainVars, queueVars >>
    /\ UNCHANGED histVars

\* self.off(); time.sleep(rest)
PlayerOff(a) ==
    /\ p_pc[a] = "off"
    /\ calls' = [calls EXCEPT ![a] =
                    Append(@, [op |-> "off", id |-> cur[a].id, arg |-> CallArg(a)])]
    /\ p_pc' = [p_pc EXCEPT ![a] = "loop"]
    /\ UNCHANGED << c_stop, cur, sut, h_pc, end_phase >>
    /\ UNCHANGED << trialVars, monitorVars, mainVars, queueVars >>
    /\ UNCHANGED histVars

\* on()/off() of a call into a backend that can raise: LED.on()/LED.off()
\* and sound.play()/sound.stop(); MockController's are "pass"
MayRaise(a) == a \in { "L_light", "R_light", "speaker" }

\* self.on() raises: nothing in player catches it, the thread ends
PlayerOnRaises(a) ==
    /\ p_pc[a] = "on"
    /\ MayRaise(a)
    /\ p_pc' = [p_pc EXCEPT ![a] = "failed"]
    /\ UNCHANGED << c_stop, cur, calls, sut, h_pc, end_phase >>
    /\ UNCHANGED << trialVars, monitorVars, mainVars, queueVars >>
    /\ UNCHANGED histVars

\* self.off() raises: nothing in player catches it, the thread ends
PlayerOffRaises(a) ==
    /\ p_pc[a] = "off"
    /\ MayRaise(a)
    /\ p_pc' = [p_pc EXCEPT ![a] = "failed"]
    /\ UNCHANGED << c_stop, cur, calls, sut, h_pc, end_phase >>
    /\ UNCHANGED << trialVars, monitorVars, mainVars, queueVars >>
    /\ UNCHANGED histVars

\* inside "with <Controller> as sut:": sut.play(1)
BlockPlay ==
    /\ h_pc = "body"
    /\ nput[sut] < MaxCmds
    /\ play(sut, 1)
    /\ UNCHANGED << sound, playerVars >>
    /\ UNCHANGED << trialVars, monitorVars, mainVars >>
    /\ UNCHANGED histVars

\* inside the block: speaker.sound = pygame.mixer.Sound(s)
BlockSetSound(s) ==
    /\ h_pc = "body"
    /\ sut = "speaker"
    /\ s # sound
    /\ sound' = s
    /\ UNCHANGED << Q, nput, playerVars >>
    /\ UNCHANGED << trialVars, monitorVars, mainVars >>
    /\ UNCHANGED histVars

\* inside the block: sut.play(1, condition=gate, condition_timeout=timeout)
\* with gate an Event of the block that is not set yet
BlockPlayGated(timeout) ==
    /\ h_pc = "body"
    /\ nput[sut] < MaxCmds
    /\ schedule(sut, 1, FALSE, timeout)
    /\ UNCHANGED << sound, playerVars >>
    /\ UNCHANGED << trialVars, monitorVars, mainVars >>
    /\ UNCHANGED histVars

\* the schedule c once the gate Event is set
Opened(c) == IF c = NoCmd THEN c ELSE [c EXCEPT !.condition = TRUE]

\* some schedule of a, queued or taken, holds a gate that is not set
Gated(a) ==
    \/ cur[a] # NoCmd /\ ~cur[a].condition
    \/ \E k \in 1..Len(Q[a]) : ~Q[a][k].condition

\* inside the block: gate.set(); every schedule holding the gate sees it
BlockSetGate ==
    /\ h_pc = "body"
    /\ Gated(sut)
    /\ Q' = [Q EXCEPT ![sut] = [k \in 1..Len(@) |-> Opened(@[k])]]
    /\ cur' = [cur EXCEPT ![sut] = Opened(@)]
    /\ UNCHANGED << nput, sound, c_stop, p_pc, calls, sut, h_pc, end_phase >>
    /\ UNCHANGED << trialVars, monitorVars, mainVars >>
    /\ UNCHANGED histVars

\* Device.__exit__ -> end(): self.stop.set()
End ==
    /\ h_pc = "body"
    /\ c_stop' = [c_stop EXCEPT ![sut] = TRUE]
    /\ end_phase' = p_pc[sut]
    /\ h_pc' = "join"
    /\ UNCHANGED << p_pc, cur, calls, sut >>
    /\ UNCHANGED << trialVars, monitorVars, mainVars, queueVars >>
    /\ UNCHANGED histVars

\* the thread of a has ended: its loop test failed, or on()/off() raised
Ended(a) == p_pc[a] \in { "done", "failed" }

\* end(): self.t.join()
Join ==
    /\ h_pc = "join"
    /\ Ended(sut)
    /\ h_pc' = "exited"
    /\ UNCHANGED << c_stop, p_pc, cur, calls, sut, end_phase >>
    /\ UNCHANGED << trialVars, monitorVars, mainVars, queueVars >>
    /\ UNCHANGED histVars

\* -------------------------------------------------------------------- main
PokeTimeout == 10
ItiCorrect == 5
ItiOther == 15

NoWait == [wait |-> "none", reason |-> "none", value |-> FALSE]

MainInit ==
    /\ o_pc = "loop"
    /\ correct = "none"
    /\ nose_poke = FALSE
    /\ outcome = "none"
    /\ side = "none"
    /\ t = 0
    /\ wait = "none"
    /\ w_timeout = None
    /\ w_t = 0
    /\ w_ret = NoWait
    /\ aborted = FALSE
    /\ n_reward = [d \in { "L_dispenser", "R_dispenser" } |-> 0]
    /\ slept = 0
    /\ w_seen = FALSE

\* mutant of LightFor: the light of the rewarded side
LightForSame(c) == IF c = "left" THEN "L_light" ELSE "R_light"

\* light = R_light if correct == "left" else L_light
LightFor(c) == IF c = "left" THEN "R_light" ELSE "L_light"

\* dispenser = L_dispenser if correct == "left" else R_dispenser
DispenserFor(c) == IF c = "left" THEN "L_dispenser" ELSE "R_dispenser"

\* tone = HIGH_TONE_WITH_DISTRACTOR if correct == "left" else LOW_...
ToneFor(c) ==
    IF c = "left" THEN "HIGH_TONE_WITH_DISTRACTOR" ELSE "LOW_TONE_WITH_DISTRACTOR"

\* the loop condition of each wait_for_* negated: what the call waits for
WaitCond(w) == WaitCondOn(w, in_trial_zone, left_nose_poke, right_nose_poke)

\* the positions of a thread that is inside a wait_for_* call
WaitPcs == { "w_cond", "w_time", "w_stop" }

\* where main continues when the call w returns
AfterWait(w) ==
    IF w = "entrance" THEN "chk_run"
    ELSE IF w = "leaving" THEN "iti"
    ELSE "outcome"

\* main enters wait_for_<w>(timeout): t0 = time.time()
CallWait(w, timeout) ==
    /\ wait' = w
    /\ w_timeout' = timeout
    /\ w_t' = 0
    /\ w_seen' = WaitCond(w)
    /\ o_pc' = "w_cond"

\* the value each return statement of wait_for_* gives: "return True" after
\* the loop, "return False" in the timeout branch and in the stop branch
ReturnValue(reason) ==
    IF reason = "cond" THEN TRUE
    ELSE IF reason = "timeout" THEN FALSE
    ELSE FALSE

\* wait_for_<wait> returns from the branch named by reason
Return(reason) ==
    /\ w_ret' = [wait |-> wait, reason |-> reason, value |-> ReturnValue(reason)]
    /\ aborted' = (aborted \/ reason = "stop")
    /\ nose_poke' = IF wait = "poke" THEN ReturnValue(reason) ELSE nose_poke
    /\ o_pc' = AfterWait(wait)

\* mutant of MainLoop: the loop goes on whatever running() gives
MainLoopIgnoresStop ==
    /\ o_pc = "loop"
    /\ i < MaxTrials
    /\ o_pc' = "next"
    /\ UNCHANGED << correct, nose_poke, outcome, side, t, wait, w_timeout,
                    w_t, w_ret, aborted, n_reward, slept >>
    /\ UNCHANGED << trialVars, monitorVars, ctrlVars >>
    /\ UNCHANGED histVars

\* while monitor.running():   (at most MaxTrials trials are started)
MainLoop ==
    /\ o_pc = "loop"
    /\ stop \/ i < MaxTrials
    /\ o_pc' = IF ~stop THEN "next" ELSE "exit"
    /\ UNCHANGED << correct, nose_poke, outcome, side, t, wait, w_timeout,
                    w_t, w_ret, aborted, n_reward, slept >>
    /\ UNCHANGED << trialVars, monitorVars, ctrlVars >>
    /\ UNCHANGED histVars

\* i, correct = trials.next() ...; entrance = monitor.wait_for_entrance()
MainNext ==
    /\ o_pc = "next"
    /\ ~raised
    /\ \E r \in {0, 1} : TrialsNext(r)
    /\ correct' = IF raised' THEN correct ELSE sides'[Len(sides')]
    /\ IF raised' THEN /\ o_pc' = "raised"
                        /\ UNCHANGED << wait, w_timeout, w_t, w_seen >>
                   ELSE CallWait("entrance", None)
    /\ outcome' = "none"
    /\ side' = "none"
    /\ n_reward' = [d \in DOMAIN n_reward |-> 0]
    /\ slept' = 0
    /\ UNCHANGED << nose_poke, t, w_ret, aborted >>
    /\ UNCHANGED << monitorVars, ctrlVars >>

\* mutant of WaitTime: the elapsed time is not compared with the timeout
WaitTimeAnyTime ==
    /\ o_pc = "w_time"
    /\ Return("timeout")
    /\ UNCHANGED << correct, outcome, side, t, wait, w_timeout, w_t,
                    n_reward, slept >>
    /\ UNCHANGED << trialVars, monitorVars, ctrlVars >>
    /\ UNCHANGED histVars

\* mutant of WaitStop: the stop Event is not tested in the loop
WaitStopIgnored ==
    /\ o_pc = "w_stop"
    /\ o_pc' = "w_cond"
    /\ UNCHANGED << w_ret, aborted, nose_poke >>
    /\ UNCHANGED << correct, outcome, side, t, wait, w_timeout, w_t,
                    n_reward, slept >>
    /\ UNCHANGED << trialVars, monitorVars, ctrlVars >>
    /\ UNCHANGED histVars

\* while <condition not met>:
WaitCheck ==
    /\ o_pc = "w_cond"
    /\ IF WaitCond(wait)
          THEN Return("cond")
          ELSE /\ o_pc' = IF w_timeout # None THEN "w_time" ELSE "w_stop"
               /\ UNCHANGED << w_ret, aborted, nose_poke >>
    /\ UNCHANGED << correct, outcome, side, t, wait, w_timeout, w_t,
                    n_reward, slept >>
    /\ UNCHANGED << trialVars, monitorVars, ctrlVars >>
    /\ UNCHANGED histVars

\* t = time.time() - t0; if timeout is not None and t >= timeout: return False
WaitTime ==
    /\ o_pc = "w_time"
    /\ IF w_t >= w_timeout
          THEN Return("timeout")
          ELSE /\ o_pc' = "w_stop"
               /\ UNCHANGED << w_ret, aborted, nose_poke >>
    /\ UNCHANGED << correct, outcome, side, t, wait, w_timeout, w_t,
                    n_reward, slept >>
    /\ UNCHANGED << trialVars, monitorVars, ctrlVars >>
    /\ UNCHANGED histVars

\* if self.stop.is_set(): return False
WaitStop ==
    /\ o_pc = "w_stop"
    /\ IF stop
          THEN Return("stop")
          ELSE /\ o_pc' = "w_cond"
               /\ UNCHANGED << w_ret, aborted, nose_poke >>
    /\ UNCHANGED << correct, outcome, side, t, wait, w_timeout, w_t,
                    n_reward, slept >>
    /\ UNCHANGED << trialVars, monitorVars, ctrlVars >>
    /\ UNCHANGED histVars

\* the clock advances while a wait_for_* call with a timeout is polling
\* (time.time() is only compared in such a call; it is followed up to the
\* first reading that reaches the timeout)
Tick ==
    /\ o_pc \in { "w_cond", "w_time", "w_stop" }
    /\ w_timeout # None
    /\ w_t < w_timeout
    /\ w_t' = w_t + TickLen
    /\ UNCHANGED << o_pc, correct, nose_poke, outcome, side, t, wait,
                    w_timeout, w_ret, aborted, n_reward, slept >>
    /\ UNCHANGED << trialVars, monitorVars, ctrlVars >>
    /\ UNCHANGED histVars

\* mutant of MainCheckRunning: the trial goes on whatever running() gives
MainCheckRunningBlind ==
    /\ o_pc = "chk_run"
    /\ o_pc' = "clear_left"
    /\ UNCHANGED << correct, nose_poke, outcome, side, t, wait, w_timeout,
                    w_t, w_ret, aborted, n_reward, slept >>
    /\ UNCHANGED << trialVars, monitorVars, ctrlVars >>
    /\ UNCHANGED histVars

\* if not monitor.running(): break
MainCheckRunning ==
    /\ o_pc = "chk_run"
    /\ o_pc' = IF ~stop THEN "clear_left" ELSE "exit"
    /\ UNCHANGED << correct, nose_poke, outcome, side, t, wait, w_timeout,
                    w_t, w_ret, aborted, n_reward, slept >>
    /\ UNCHANGED << trialVars, monitorVars, ctrlVars >>
    /\ UNCHANGED histVars

\* clear_nose_poke: self.left_nose_poke.clear()
ClearLeft ==
    /\ o_pc = "clear_left"
    /\ left_nose_poke' = FALSE
    /\ cleared' = TRUE
    /\ o_pc' = "clear_right"
    /\ UNCHANGED << in_trial_zone, right_nose_poke, stop, l_pc, data,
                    pending, nconn, echoed >>
    /\ UNCHANGED << correct, nose_poke, outcome, side, t, wait, w_timeout,
                    w_t, w_ret, aborted, n_reward, slept >>
    /\ UNCHANGED << trialVars, ctrlVars >>
    /\ UNCHANGED histVars

\* mutant of ClearRight: the right flag is left as it is
ClearRightSkipped ==
    /\ o_pc = "clear_right"
    /\ cleared' = TRUE
    /\ o_pc' = "cue_noise"
    /\ UNCHANGED << in_trial_zone, left_nose_poke, right_nose_poke, stop, l_pc,
                    data, pending, nconn, echoed >>
    /\ UNCHANGED << correct, nose_poke, outcome, side, t, wait, w_timeout,
                    w_t, w_ret, aborted, n_reward, slept >>
    /\ UNCHANGED << trialVars, ctrlVars >>
    /\ UNCHANGED histVars

\* mutant of ClearRight: every Event of the monitor is cleared, stop included
ClearRightAndStop ==
    /\ o_pc = "clear_right"
    /\ right_nose_poke' = FALSE
    /\ stop' = FALSE
    /\ cleared' = TRUE
    /\ o_pc' = "cue_noise"
    /\ UNCHANGED << in_trial_zone, left_nose_poke, l_pc, data,
                    pending, nconn, echoed >>
    /\ UNCHANGED << correct, nose_poke, outcome, side, t, wait, w_timeout,
                    w_t, w_ret, aborted, n_reward, slept >>
    /\ UNCHANGED << trialVars, ctrlVars >>
    /\ UNCHANGED histVars

\* clear_nose_poke: self.right_nose_poke.clear()
ClearRight ==
    /\ o_pc = "clear_right"
    /\ right_nose_poke' = FALSE
    /\ cleared' = TRUE
    /\ o_pc' = "cue_noise"
    /\ UNCHANGED << in_trial_zone, left_nose_poke, stop, l_pc, data,
                    pending, nconn, echoed >>
    /\ UNCHANGED << correct, nose_poke, outcome, side, t, wait, w_timeout,
                    w_t, w_ret, aborted, n_reward, slept >>
    /\ UNCHANGED << trialVars, ctrlVars >>
    /\ UNCHANGED histVars

\* speaker.play(1); time.sleep(1.0)
CueNoise ==
    /\ o_pc = "cue_noise"
    /\ play("speaker", 1)
    /\ o_pc' = "cue_swap"
    /\ UNCHANGED << sound, playerVars >>
    /\ UNCHANGED << correct, nose_poke, outcome, side, t, wait, w_timeout,
                    w_t, w_ret, aborted, n_reward, slept >>
    /\ UNCHANGED << trialVars, monitorVars >>
    /\ UNCHANGED histVars

\* speaker.sound = pygame.mixer.Sound(tone)
CueSwap ==
    /\ o_pc = "cue_swap"
    /\ sound' = ToneFor(correct)
    /\ o_pc' = "cue_light"
    /\ UNCHANGED << Q, nput, playerVars >>
    /\ UNCHANGED << correct, nose_poke, outcome, side, t, wait, w_timeout,
                    w_t, w_ret, aborted, n_reward, slept >>
    /\ UNCHANGED << trialVars, monitorVars >>
    /\ UNCHANGED histVars

\* light.play(1)
CueLight ==
    /\ o_pc = "cue_light"
    /\ play(LightFor(correct), 1)
    /\ o_pc' = "cue_tone"
    /\ UNCHANGED << sound, playerVars >>
    /\ UNCHANGED << correct, nose_poke, outcome, side, t, wait, w_timeout,
                    w_t, w_ret, aborted, n_reward, slept >>
    /\ UNCHANGED << trialVars, monitorVars >>
    /\ UNCHANGED histVars

\* speaker.play(0.2*5); t0 = time.time();
\* nose_poke = monitor.wait_for_nose_poke(timeout=10.0)
CueTone ==
    /\ o_pc = "cue_tone"
    /\ play("speaker", 1)
    /\ CallWait("poke", PokeTimeout)
    /\ UNCHANGED << sound, playerVars >>
    /\ UNCHANGED << correct, nose_poke, outcome, side, t, w_ret, aborted,
                    n_reward, slept >>
    /\ UNCHANGED << trialVars, monitorVars >>

\* t = ... if nose_poke else 10.0; the outcome; dispenser.play(1) when correct;
\* monitor.wait_for_leaving()
Outcome ==
    /\ o_pc = "outcome"
    /\ t' = IF nose_poke THEN w_t ELSE PokeTimeout
    /\ IF nose_poke
          THEN LET s == nose_poke_side(left_nose_poke, right_nose_poke)
               IN  /\ side' = s
                   /\ IF s = correct
                         THEN /\ outcome' = "correct"
                              /\ play(DispenserFor(correct), 1)
                              /\ n_reward' = [n_reward EXCEPT
                                                ![DispenserFor(correct)] = @ + 1]
                         ELSE /\ outcome' = "incorrect"
                              /\ UNCHANGED << Q, nput, n_reward >>
          ELSE /\ outcome' = "time out"
               /\ UNCHANGED << side, Q, nput, n_reward >>
    /\ CallWait("leaving", None)
    /\ UNCHANGED << sound, playerVars >>
    /\ UNCHANGED << correct, nose_poke, w_ret, aborted, slept >>
    /\ UNCHANGED << trialVars, monitorVars >>

\* mutant of InterTrial: the long interval after every outcome
InterTrialFlat ==
    /\ o_pc = "iti"
    /\ slept' = ItiOther
    /\ o_pc' = "restore"
    /\ UNCHANGED << correct, nose_poke, outcome, side, t, wait, w_timeout,
                    w_t, w_ret, aborted, n_reward >>
    /\ UNCHANGED << trialVars, monitorVars, ctrlVars >>
    /\ UNCHANGED histVars

\* if outcome == "correct": time.sleep(5) else: time.sleep(15)
InterTrial ==
    /\ o_pc = "iti"
    /\ slept' = IF outcome = "correct" THEN ItiCorrect ELSE ItiOther
    /\ o_pc' = "restore"
    /\ UNCHANGED << correct, nose_poke, outcome, side, t, wait, w_timeout,
                    w_t, w_ret, aborted, n_reward >>
    /\ UNCHANGED << trialVars, monitorVars, ctrlVars >>
    /\ UNCHANGED histVars

\* speaker.sound = pygame.mixer.Sound(WHITE_NOISE)
Restore ==
    /\ o_pc = "restore"
    /\ sound' = "WHITE_NOISE"
    /\ o_pc' = "loop"
    /\ UNCHANGED << Q, nput, playerVars >>
    /\ UNCHANGED << correct, nose_poke, outcome, side, t, wait, w_timeout,
                    w_t, w_ret, aborted, n_reward, slept >>
    /\ UNCHANGED << trialVars, monitorVars >>
    /\ UNCHANGED histVars

\* -------------------------------------------------------------------- Spec
Init ==
    /\ TrialsInit(DefaultMaxRepeat)
    /\ MonitorInit
    /\ MainInit
    /\ CtrlInit({ }, "none")

Next ==
    \/ \E d \in Payloads : ClientConnect(d)
    \/ ListenerLoop
    \/ ListenerAccept
    \/ ListenerApply
    \/ ListenerSend
    \/ MainLoop
    \/ MainNext
    \/ WaitCheck
    \/ WaitTime
    \/ WaitStop
    \/ Tick
    \/ MainCheckRunning
    \/ ClearLeft
    \/ ClearRight
    \/ CueNoise
    \/ CueSwap
    \/ CueLight
    \/ CueTone
    \/ Outcome
    \/ InterTrial
    \/ Restore

Spec == Init /\ [][Next]_vars

\* -------------------------------------------------------------- SpecServer
\* The session as main() of 2ac_server.py runs it (line numbers of this
\* section are those of 2ac_server.py): the same Monitor, Trials, loop test,
\* entrance wait and clear_nose_poke, then the timer, three run() calls in
\* place of the play() calls, no sound to swap or to restore.
CuePause == 1

\* Controller.run(args, rest=rest) on actuator a, the other arguments
\* defaulted: the tuple put on the queue
run_args(a, args, rest) ==
    /\ Q' = [Q EXCEPT ![a] = Put(@, [id |-> nput[a] + 1,
                                      args |-> args,
                                      offset |-> 0,
                                      rest |-> rest,
                                      condition |-> TRUE,
                                      condition_timeout |-> None])]
    /\ nput' = [nput EXCEPT ![a] = @ + 1]

\* t0 = time.time(); speaker.run(..., rest=1); time.sleep(1.0)
ServerCueNoise ==
    /\ o_pc = "cue_noise"
    /\ run_args("speaker", "white noise", 1)
    /\ o_pc' = "cue_light"
    /\ UNCHANGED << sound, playerVars >>
    /\ UNCHANGED << correct, nose_poke, outcome, side, t, wait, w_timeout,
                    w_t, w_ret, aborted, n_reward, slept >>
    /\ UNCHANGED << trialVars, monitorVars >>
    /\ UNCHANGED histVars

\* light.run(...)
ServerCueLight ==
    /\ o_pc = "cue_light"
    /\ run_args(LightFor(correct), "light", 0)
    /\ o_pc' = "cue_tone"
    /\ UNCHANGED << sound, playerVars >>
    /\ UNCHANGED << correct, nose_poke, outcome, side, t, wait, w_timeout,
                    w_t, w_ret, aborted, n_reward, slept >>
    /\ UNCHANGED << trialVars, monitorVars >>
    /\ UNCHANGED histVars

\* speaker.run(...); nose_poke = monitor.wait_for_nose_poke(timeout=10.0)
ServerCueTone ==
    /\ o_pc = "cue_tone"
    /\ run_args("speaker", "tone", 0)
    /\ CallWait("poke", PokeTimeout)
    /\ UNCHANGED << sound, playerVars >>
    /\ UNCHANGED << correct, nose_poke, outcome, side, t, w_ret, aborted,
                    n_reward, slept >>
    /\ UNCHANGED << trialVars, monitorVars >>

\* t = (time.time() - t0) if nose_poke else 10.0, with t0 read at line 392:
\* the time.sleep(1.0) of line 408 and then the seconds spent inside
\* wait_for_nose_poke lie between the two readings; the outcome;
\* dispenser.run(...) when correct; monitor.wait_for_leaving()
ServerOutcome ==
    /\ o_pc = "outcome"
    /\ t' = IF nose_poke THEN CuePause + w_t ELSE PokeTimeout
    /\ IF nose_poke
          THEN LET s == nose_poke_side(left_nose_poke, right_nose_poke)
               IN  /\ side' = s
                   /\ IF s = correct
                         THEN /\ outcome' = "correct"
                              /\ run_args(DispenserFor(correct), "Cheerio", 0)
                              /\ n_reward' = [n_reward EXCEPT
                                                ![DispenserFor(correct)] = @ + 1]
                         ELSE /\ outcome' = "incorrect"
                              /\ UNCHANGED << Q, nput, n_reward >>
          ELSE /\ outcome' = "time out"
               /\ UNCHANGED << side, Q, nput, n_reward >>
    /\ CallWait("leaving", None)
    /\ UNCHANGED << sound, playerVars >>
    /\ UNCHANGED << correct, nose_poke, w_ret, aborted, slept >>
    /\ UNCHANGED << trialVars, monitorVars >>

\* if outcome == "correct": time.sleep(5) else: time.sleep(15)
ServerInterTrial ==
    /\ o_pc = "iti"
    /\ slept' = IF outcome = "correct" THEN ItiCorrect ELSE ItiOther
    /\ o_pc' = "loop"
    /\ UNCHANGED << correct, nose_poke, outcome, side, t, wait, w_timeout,
                    w_t, w_ret, aborted, n_reward >>
    /\ UNCHANGED << trialVars, monitorVars, ctrlVars >>
    /\ UNCHANGED histVars

NextServer ==
    \/ \E d \in Payloads : ClientConnect(d)
    \/ ListenerLoop
    \/ ListenerAccept
    \/ ListenerApply
    \/ ListenerSend
    \/ MainLoop
    \/ MainNext
    \/ WaitCheck
    \/ WaitTime
    \/ WaitStop
    \/ Tick
    \/ MainCheckRunning
    \/ ClearLeft
    \/ ClearRight
    \/ ServerCueNoise
    \/ ServerCueLight
    \/ ServerCueTone
    \/ ServerOutcome
    \/ ServerInterTrial

SpecServer == Init /\ [][NextServer]_vars

\* -------------------------------------------------------------- SpecFaults
\* The session from the start of the listener thread, with a transport that
\* can fail: bind/listen at startup, recv and sendall on a connection.
InitFaults ==
    /\ TrialsInit(DefaultMaxRepeat)
    /\ in_trial_zone = FALSE
    /\ left_nose_poke = FALSE
    /\ right_nose_poke = FALSE
    /\ stop = FALSE
    /\ l_pc = "bind"
    /\ data = NoData
    /\ pending = << >>
    /\ nconn = 0
    /\ echoed = << >>
    /\ cleared = FALSE
    /\ MainInit
    /\ CtrlInit({ }, "none")

NextFaults ==
    \/ Next
    \/ \E ok \in BOOLEAN : ListenerBind(ok)
    \/ ListenerRecvRaises
    \/ ListenerSendRaises

SpecFaults == InitFaults /\ [][NextFaults]_vars

\* --------------------------------------------------------------- SpecAlloc
InitAlloc ==
    /\ \E m \in 0..MaxRepeatBound : TrialsInit(m)
    /\ MonitorInit
    /\ MainInit
    /\ CtrlInit({ }, "none")

AllocNext ==
    /\ ~raised
    /\ i < MaxCalls
    /\ \E r \in {0, 1} : TrialsNext(r)
    /\ UNCHANGED << monitorVars, mainVars, ctrlVars >>
    /\ UNCHANGED histVars

NextAlloc == AllocNext

SpecAlloc == InitAlloc /\ [][NextAlloc]_vars

\* ---------------------------------------------------------------- SpecSeed
\* Two runs of a program that builds Trials(max_repeat, seed) and then calls
\* next() in a loop, shuffling a five-tone list after each call as main does:
\* each run is a process with its own module-level generator "random".
Runs == { 1, 2 }

Seeds == 0..(2 ^ StreamLen - 1)

\* the values the generator returns, call after call, once seeded with s:
\* a stream fixed by s (of period StreamLen, every such stream for some s)
StreamOf(s) == [k \in 1..StreamLen |-> (s \div 2 ^ (k - 1)) % 2]

\* mutant of Seeded: the seed argument is not passed on to the generator
SeededNever(seed, e) == [stream |-> StreamOf(e), pos |-> 0]

\* if self.seed is not None: random.seed(self.seed)
\* on a generator the interpreter seeded from the entropy e at import
Seeded(seed, e) ==
    [stream |-> StreamOf(IF seed # None THEN seed ELSE e), pos |-> 0]

\* the value of the next call on generator g
Draw(g) == g.stream[(g.pos % StreamLen) + 1]

\* the generator g after n calls
Drawn(g, n) == [g EXCEPT !.pos = (@ + n) % StreamLen]

\* random.shuffle(tone) on a list of five: one call for each of four swaps
ShuffleDraws == 4

\* Trials.__init__: the object of a run that has made no call yet
TrialsNew(m, seed) ==
    [pc |-> "next", max_repeat |-> m, seed |-> seed, buffer |-> << >>, i |-> 0,
     reward_position |-> None, out |-> << >>]

\* the flip branch of Trials.next is taken on object st
Flips(st) == AllSame(st.buffer)

\* Trials.next on object st with r the value random.randint(0,1) would give:
\* out is the sequence of pairs returned so far
TrialsStep(st, r) ==
    IF Flips(st) /\ st.reward_position = None
    THEN [st EXCEPT !.pc = "raised"]
    ELSE LET rp == IF Flips(st) THEN Abs(st.reward_position - 1) ELSE r
         IN  [st EXCEPT !.reward_position = rp,
                        !.buffer = PySliceFrom(Append(st.buffer, rp), -st.max_repeat),
                        !.i = @ + 1,
                        !.out = Append(@, << st.i + 1, positions[rp + 1] >>),
                        !.pc = "shuffle"]

\* i, correct = trials.next() in run k
SeedNext(k) ==
    /\ run[k].pc = "next"
    /\ run[k].i < MaxCalls
    /\ run' = [run EXCEPT ![k] = TrialsStep(@, Draw(rng[k]))]
    /\ rng' = [rng EXCEPT ![k] = IF Flips(run[k]) THEN @ ELSE Drawn(@, 1)]
    /\ UNCHANGED << max_repeat, buffer, i, reward_position, raised, sides, forced >>
    /\ UNCHANGED << monitorVars, mainVars, ctrlVars, histVars >>

\* random.shuffle(tone) in run k
SeedShuffle(k) ==
    /\ run[k].pc = "shuffle"
    /\ run' = [run EXCEPT ![k].pc = "next"]
    /\ rng' = [rng EXCEPT ![k] = Drawn(@, ShuffleDraws)]
    /\ UNCHANGED << max_repeat, buffer, i, reward_position, raised, sides, forced >>
    /\ UNCHANGED << monitorVars, mainVars, ctrlVars, histVars >>

InitSeed ==
    /\ max_repeat = DefaultMaxRepeat
    /\ buffer = << >>
    /\ i = 0
    /\ reward_position = None
    /\ raised = FALSE
    /\ sides = << >>
    /\ forced = FALSE
    /\ \E m \in 0..MaxRepeatBound, seed \in Seeds \cup { None } :
          /\ run = [k \in Runs |-> TrialsNew(m, seed)]
          /\ \E e \in [Runs -> 0..MaxEntropy] :
                rng = [k \in Runs |-> Seeded(seed, e[k])]
    /\ MonitorInit
    /\ MainInit
    /\ CtrlInit({ }, "none")

NextSeed ==
    \/ \E k \in Runs : SeedNext(k)
    \/ \E k \in Runs : SeedShuffle(k)

SpecSeed == InitSeed /\ [][NextSeed]_vars

\* --------------------------------------------------------------- SpecSched
InitSched ==
    /\ TrialsInit(DefaultMaxRepeat)
    /\ MonitorInit
    /\ MainInit
    /\ \E a \in Actuators : CtrlInit({ a }, a)

NextSched ==
    \/ BlockPlay
    \/ \E s \in Sounds : BlockSetSound(s)
    \/ End
    \/ Join
    \/ \E a \in Actuators : PlayerLoop(a)
    \/ \E a \in Actuators : PlayerPoll(a)
    \/ \E a \in Actuators : PlayerWait(a)
    \/ \E a \in Actuators : PlayerOn(a)
    \/ \E a \in Actuators : PlayerOff(a)

SpecSched == InitSched /\ [][NextSched]_vars

\* --------------------------------------------------------- SpecSchedFaults
\* SpecSched with a backend whose on()/off() can raise.
NextSchedFaults ==
    \/ NextSched
    \/ \E a \in Actuators : PlayerOnRaises(a)
    \/ \E a \in Actuators : PlayerOffRaises(a)

SpecSchedFaults == InitSched /\ [][NextSchedFaults]_vars

\* ---------------------------------------------------------------- SpecGate
\* SpecSched with schedules that wait on a gate Event of the block.
GateTimeouts == { None, 1 }

NextGate ==
    \/ NextSched
    \/ \E timeout \in GateTimeouts : BlockPlayGated(timeout)
    \/ BlockSetGate

SpecGate == InitSched /\ [][NextGate]_vars

\* --------------------------------------------------------------- SpecScope
\* The "with" statement of main: the six devices are started, the body (the
\* trial loop) enqueues schedules until it is left, by the loop ending once
\* stop is set or by an exception, and the devices are ended innermost
\* first, each by Device.end (stop.set(), then join).
WithOrder ==
    << "monitor", "L_light", "R_light", "R_dispenser", "L_dispenser", "speaker" >>

\* the device of the enclosing "with" item
Outer(dev) ==
    LET k == CHOOSE j \in 1..Len(WithOrder) : WithOrder[j] = dev
    IN  WithOrder[k - 1]

Plays == nput["L_light"] + nput["R_light"] + nput["R_dispenser"]
            + nput["L_dispenser"] + nput["speaker"]

\* the body is left: main is on its way out of the "with" statement
Leaving == o_pc \in { "exit", "error" }

\* a client connects while the block is open
ScopeConnect(d) ==
    /\ nconn < MaxScopeConns
    /\ ClientConnect(d)

\* the body calls <a>.play(1)
ScopePlay(a) ==
    /\ o_pc = "body"
    /\ Plays < MaxScopeCmds
    /\ play(a, 1)
    /\ UNCHANGED << sound, playerVars >>
    /\ UNCHANGED << trialVars, monitorVars, mainVars, histVars >>

\* "while monitor.running()" / "if not monitor.running(): break" finds
\* stop set: the body ends
ScopeLeave ==
    /\ o_pc = "body"
    /\ stop
    /\ o_pc' = "exit"
    /\ UNCHANGED << correct, nose_poke, outcome, side, t, wait, w_timeout,
                    w_t, w_ret, aborted, n_reward, slept >>
    /\ UNCHANGED << trialVars, monitorVars, ctrlVars, histVars >>

\* a statement of the body raises (KeyboardInterrupt included)
ScopeRaise ==
    /\ o_pc = "body"
    /\ o_pc' = "error"
    /\ UNCHANGED << correct, nose_poke, outcome, side, t, wait, w_timeout,
                    w_t, w_ret, aborted, n_reward, slept >>
    /\ UNCHANGED << trialVars, monitorVars, ctrlVars, histVars >>

\* __exit__ of the Controller sut: end(): self.stop.set()
ScopeEnd ==
    /\ Leaving
    /\ sut \in Actuators
    /\ End

\* end() of the Controller sut: self.t.join()
ScopeJoin ==
    /\ sut \in Actuators
    /\ Join

\* __exit__ of sut has returned: the enclosing item's __exit__ is next
ScopeOuter ==
    /\ h_pc = "exited"
    /\ sut # WithOrder[1]
    /\ sut' = Outer(sut)
    /\ h_pc' = "body"
    /\ UNCHANGED << c_stop, p_pc, cur, calls, end_phase >>
    /\ UNCHANGED << trialVars, monitorVars, mainVars, queueVars, histVars >>

\* __exit__ of the Monitor: end(): self.stop.set()
MonitorEnd ==
    /\ Leaving
    /\ sut = "monitor"
    /\ h_pc = "body"
    /\ stop' = TRUE
    /\ h_pc' = "join"
    /\ UNCHANGED << in_trial_zone, left_nose_poke, right_nose_poke,
                    l_pc, data, pending, nconn, echoed, cleared >>
    /\ UNCHANGED << c_stop, p_pc, cur, calls, sut, end_phase >>
    /\ UNCHANGED << trialVars, mainVars, queueVars, histVars >>

\* end() of the Monitor: self.t.join()
MonitorJoin ==
    /\ sut = "monitor"
    /\ h_pc = "join"
    /\ l_pc \in { "done", "bind_failed", "io_failed" }
    /\ h_pc' = "exited"
    /\ UNCHANGED << c_stop, p_pc, cur, calls, sut, end_phase >>
    /\ UNCHANGED << trialVars, monitorVars, mainVars, queueVars, histVars >>

InitScope ==
    /\ TrialsInit(DefaultMaxRepeat)
    /\ MonitorInit
    /\ CtrlInit(Actuators, WithOrder[Len(WithOrder)])
    /\ o_pc = "body"
    /\ correct = "none"
    /\ nose_poke = FALSE
    /\ outcome = "none"
    /\ side = "none"
    /\ t = 0
    /\ wait = "none"
    /\ w_timeout = None
    /\ w_t = 0
    /\ w_ret = NoWait
    /\ aborted = FALSE
    /\ n_reward = [d \in { "L_dispenser", "R_dispenser" } |-> 0]
    /\ slept = 0
    /\ w_seen = FALSE

\* the steps of the main thread on its way out of the "with" statement
ExitStep == ScopeEnd \/ ScopeJoin \/ ScopeOuter \/ MonitorEnd \/ MonitorJoin

\* the steps of the listener thread
ListenerStep == ListenerLoop \/ ListenerAccept \/ ListenerApply \/ ListenerSend

\* the steps of the player thread of a
PlayerStep(a) ==
    PlayerLoop(a) \/ PlayerPoll(a) \/ PlayerWait(a) \/ PlayerOn(a) \/ PlayerOff(a)

NextScope ==
    \/ \E d \in Payloads : ScopeConnect(d)
    \/ ListenerLoop
    \/ ListenerAccept
    \/ ListenerApply
    \/ ListenerSend
    \/ \E a \in Actuators : ScopePlay(a)
    \/ ScopeLeave
    \/ ScopeRaise
    \/ ScopeEnd
    \/ ScopeJoin
    \/ ScopeOuter
    \/ MonitorEnd
    \/ MonitorJoin
    \/ \E a \in Actuators : PlayerLoop(a)
    \/ \E a \in Actuators : PlayerPoll(a)
    \/ \E a \in Actuators : PlayerWait(a)
    \/ \E a \in Actuators : PlayerOn(a)
    \/ \E a \in Actuators : PlayerOff(a)

\* some thread of the program can take a step (the clients are not asked)
CanProceed == ENABLED (ExitStep \/ ListenerStep \/ \E a \in Actuators : PlayerStep(a))

SpecScope == InitScope /\ [][NextScope]_vars

\* ---------------------------------------------------------------- SpecWait
\* One thread calls one wait_for_* method once, with or without a timeout,
\* while the listener serves the clients.
WaitNames == { "entrance", "leaving", "poke" }

Timeouts == { None, 0, MaxTimeout }

\* monitor.wait_for_<w>(timeout)
TimedCall(w, timeout) ==
    /\ o_pc = "call"
    /\ CallWait(w, timeout)
    /\ UNCHANGED << correct, nose_poke, outcome, side, t, w_ret, aborted,
                    n_reward, slept >>
    /\ UNCHANGED << trialVars, monitorVars, ctrlVars >>

\* a client connects while the call is made or in progress
WaitConnect(d) ==
    /\ nconn < MaxWaitConns
    /\ ClientConnect(d)

InitWait ==
    /\ TrialsInit(DefaultMaxRepeat)
    /\ MonitorInit
    /\ CtrlInit({ }, "none")
    /\ o_pc = "call"
    /\ correct = "none"
    /\ nose_poke = FALSE
    /\ outcome = "none"
    /\ side = "none"
    /\ t = 0
    /\ wait = "none"
    /\ w_timeout = None
    /\ w_t = 0
    /\ w_ret = NoWait
    /\ aborted = FALSE
    /\ n_reward = [d \in { "L_dispenser", "R_dispenser" } |-> 0]
    /\ slept = 0
    /\ w_seen = FALSE

\* the steps of the calling thread inside wait_for_*
WaitPoll == WaitCheck \/ WaitTime \/ WaitStop

NextWait ==
    \/ \E d \in Payloads : WaitConnect(d)
    \/ ListenerLoop
    \/ ListenerAccept
    \/ ListenerApply
    \/ ListenerSend
    \/ \E w \in WaitNames, timeout \in Timeouts : TimedCall(w, timeout)
    \/ WaitCheck
    \/ WaitTime
    \/ WaitStop
    \/ Tick

\* the calling thread keeps running and the clock keeps advancing
SpecWait ==
    /\ InitWait
    /\ [][NextWait]_vars
    /\ WF_vars(WaitPoll)
    /\ WF_vars(Tick)

\* ------------------------------------------------------------------ claims

\* a window of n consecutive identical entries starts at position k of s
RunAt(s, k, n) == \A j \in k..(k + n - 1) : s[j] = s[k]

\* C1: for a fixed max_repeat (a positive count of allowed repeats), however
\* the random draws fall, the sides returned by consecutive next() calls
\* contain no run of max_repeat + 1 identical sides.
C1_NoLongRun ==
    max_repeat >= 1 =>
        \A k \in 1..(Len(sides) - max_repeat) : ~RunAt(sides, k, max_repeat + 1)

\* C1 witness: max_repeat = 3, a run of exactly three identical sides was
\* returned and the following call was forced to the other side.
C1_Witness ==
    /\ max_repeat = 3
    /\ Len(sides) = 5
    /\ RunAt(sides, 2, 3)
    /\ sides[5] # sides[4]
    /\ forced


\* the schedule the player of a has taken from the queue and not finished
InFlight(a) == p_pc[a] \in { "wait", "on", "off" }

\* number of schedules the player of a has taken from its queue
Taken(a) == IF InFlight(a) THEN cur[a].id ELSE Len(calls[a]) \div 2

\* C2: on each actuator the schedules are executed in the order play()
\* enqueued them, each once and one at a time: the k-th schedule's on() is
\* followed by its own off() before the (k+1)-th schedule's on(), and the
\* queue holds exactly the schedules not yet taken, in enqueue order, under
\* every interleaving of the producer and the player thread.
C2_FifoOneInFlight ==
    \A a \in Actuators :
        /\ \A k \in 1..Len(calls[a]) :
              /\ calls[a][k].op = (IF k % 2 = 1 THEN "on" ELSE "off")
              /\ calls[a][k].id = (k + 1) \div 2
        /\ Len(calls[a]) \div 2 <= nput[a]
        /\ Len(Q[a]) = nput[a] - Taken(a)
        /\ \A k \in 1..Len(Q[a]) : Q[a][k].id = Taken(a) + k
        /\ InFlight(a) => cur[a].id = (Len(calls[a]) \div 2) + 1

\* C2 witness: three schedules were enqueued, two have run to their off()
\* and the third has been taken while the producer is still in the block.
C2_Witness ==
    \E a \in Actuators :
        /\ nput[a] = 3
        /\ Len(calls[a]) = 4
        /\ p_pc[a] = "wait"
        /\ h_pc = "body"

\* C3: when a player thread has terminated, the last call made on its
\* actuator is off() (or none was made), and a schedule whose on() has been
\* called only leaves its on-phase through off(), stop set or not.
C3_StateOff ==
    \A a \in Actuators :
        p_pc[a] = "done" =>
            (calls[a] = << >> \/ calls[a][Len(calls[a])].op = "off")

C3_OnPhaseEndsInOff ==
    \A a \in Actuators :
        (p_pc[a] = "off" /\ p_pc'[a] # "off") =>
            /\ p_pc'[a] = "loop"
            /\ Len(calls'[a]) = Len(calls[a]) + 1
            /\ calls'[a][Len(calls'[a])] =
                   [op |-> "off", id |-> cur[a].id, arg |-> CallArg(a)]

C3_NeverLeftOn == [] C3_StateOff /\ [][C3_OnPhaseEndsInOff]_vars

\* C3 witness: end() set stop while a schedule was in its on-phase, the
\* schedule still reached off(), and the thread has terminated and is joined.
C3_Witness ==
    /\ h_pc = "exited"
    /\ end_phase = "off"
    /\ p_pc[sut] = "done"
    /\ calls[sut] # << >>
    /\ calls[sut][Len(calls[sut])].op = "off"

\* the side named by a pair of poke flags
PokeSideTable(l, r) ==
    CASE l /\ r -> "both"
      [] l /\ ~r -> "left"
      [] ~l /\ r -> "right"
      [] OTHER -> "none"

\* the dispenser at the port named c
DispenserAt(c) == CASE c = "left" -> "L_dispenser" [] c = "right" -> "R_dispenser"

Dispensers == { "L_dispenser", "R_dispenser" }

\* C4 (as claimed): once a wait_for_* call has returned because it observed
\* stop, the only step the trial loop takes is the one that leaves the loop.
C4_AbortEndsLoop == [][aborted => (o_pc' = o_pc \/ o_pc' = "exit")]_vars

\* C5: a trial's outcome is "time out" when wait_for_nose_poke returned
\* False, else "correct" exactly when the side the poke flags name is the
\* rewarded side ("both" never is) and "incorrect" otherwise; a reward
\* schedule is enqueued exactly when the outcome is "correct", once, on the
\* dispenser of the rewarded side, and by no other step of the trial.
C5_State ==
    /\ \A d \in Dispensers :
          /\ n_reward[d] <= 1
          /\ n_reward[d] = 1 => (outcome = "correct" /\ d = DispenserAt(correct))
    /\ outcome = "correct" => n_reward[DispenserAt(correct)] = 1
    /\ outcome = "time out" <=> (outcome # "none" /\ ~nose_poke)
    /\ outcome = "correct" => side = correct
    /\ outcome = "incorrect" => side # correct
    /\ side = "both" => outcome = "incorrect"

C5_Step ==
    /\ (o_pc = "outcome" /\ o_pc' # "outcome") =>
          LET named == PokeSideTable(left_nose_poke, right_nose_poke)
              won == nose_poke /\ named = correct
          IN  /\ outcome' = IF ~nose_poke THEN "time out"
                             ELSE IF named = correct THEN "correct"
                             ELSE "incorrect"
              /\ nose_poke => side' = named
              /\ \A a \in Actuators :
                    Len(Q'[a]) = Len(Q[a]) +
                        (IF won /\ a = DispenserAt(correct) THEN 1 ELSE 0)
    /\ o_pc # "outcome" => \A d \in Dispensers : Q'[d] = Q[d]

C5_OutcomeAndReward == [] C5_State /\ [][C5_Step]_vars

\* C5 witness: the rewarded port is the right one and was poked alone: the
\* outcome is "correct" and the right dispenser, and it only, got a schedule.
C5_Witness ==
    /\ o_pc = "iti"
    /\ correct = "right"
    /\ side = "right"
    /\ outcome = "correct"
    /\ Len(Q["R_dispenser"]) = 1
    /\ Len(Q["L_dispenser"]) = 0

Recognised == { STOP, MOUSE_IN, MOUSE_OUT, LEFT_NOSE_POKE, RIGHT_NOSE_POKE }

\* C6: the listener's transition for a recognised byte changes exactly the
\* flag the byte names (MOUSE_IN sets in_trial_zone, MOUSE_OUT clears it,
\* LEFT/RIGHT_NOSE_POKE set their poke flag, STOP sets stop) and no other
\* flag; no other listener step changes a flag; a poke flag is cleared only
\* by clear_nose_poke; nose_poke_side names the side the two flags give.
C6_Step ==
    /\ (l_pc = "apply" /\ l_pc' # "apply" /\ data \in Recognised) =>
          /\ in_trial_zone' = IF data = MOUSE_IN THEN TRUE
                               ELSE IF data = MOUSE_OUT THEN FALSE
                               ELSE in_trial_zone
          /\ left_nose_poke' = (left_nose_poke \/ data = LEFT_NOSE_POKE)
          /\ right_nose_poke' = (right_nose_poke \/ data = RIGHT_NOSE_POKE)
          /\ stop' = (stop \/ data = STOP)
    /\ (l_pc' # l_pc /\ l_pc # "apply") =>
          UNCHANGED << in_trial_zone, left_nose_poke, right_nose_poke, stop >>
    /\ (left_nose_poke /\ ~left_nose_poke') => o_pc = "clear_left"
    /\ (right_nose_poke /\ ~right_nose_poke') => o_pc = "clear_right"

C6_Sides ==
    \A l \in BOOLEAN, r \in BOOLEAN : nose_poke_side(l, r) = PokeSideTable(l, r)

C6_ByteEffects == [] C6_Sides /\ [][C6_Step]_vars

\* C6 witness: MOUSE_IN, LEFT_NOSE_POKE and RIGHT_NOSE_POKE were received
\* with no clear in between: the zone flag and both poke flags are set.
C6_Witness ==
    /\ l_pc = "send"
    /\ data = RIGHT_NOSE_POKE
    /\ in_trial_zone /\ left_nose_poke /\ right_nose_poke
    /\ ~stop
    /\ nose_poke_side(left_nose_poke, right_nose_poke) = "both"

Unknown(d) == d \notin Recognised /\ d # NoData

\* C7: a payload that is none of the five flags (empty and multi-byte ones
\* included) sets stop and changes no other flag, and the listener accepts
\* no connection after it: its next loop test ends the loop.
C7_Step ==
    /\ (l_pc = "apply" /\ l_pc' # "apply" /\ Unknown(data)) =>
          /\ stop'
          /\ UNCHANGED << in_trial_zone, left_nose_poke, right_nose_poke >>
    /\ (l_pc = "loop" /\ l_pc' # "loop" /\ Unknown(data)) => l_pc' = "done"

C7_State == (Unknown(data) /\ l_pc \in { "send", "loop", "done" }) => stop

C7_UnknownStops == [] C7_State /\ [][C7_Step]_vars

\* C7 witness: the mouse is in the zone, then a two-byte payload arrives:
\* stop is set, the zone flag is as before and the listener has ended.
C7_Witness ==
    /\ data = "12"
    /\ l_pc = "done"
    /\ stop
    /\ in_trial_zone
    /\ ~left_nose_poke /\ ~right_nose_poke

\* what the transition for payload d leaves visible to the trial loop
EffectVisible(d) ==
    IF d = MOUSE_IN THEN in_trial_zone
    ELSE IF d = MOUSE_OUT THEN ~in_trial_zone
    ELSE IF d = LEFT_NOSE_POKE THEN left_nose_poke \/ cleared
    ELSE IF d = RIGHT_NOSE_POKE THEN right_nose_poke \/ cleared
    ELSE stop

\* C8: on every connection the listener sends back at most one payload, the
\* one it received; once it is sent the transition for it has been made
\* (its flag is set or cleared, a poke flag possibly reset since by
\* clear_nose_poke); and a handled connection got exactly one echo.
C8_EchoAfterEffect ==
    /\ Len(echoed) <= 1
    /\ echoed # << >> => (echoed[1] = data /\ EffectVisible(data))
    /\ l_pc \in { "apply", "send" } => echoed = << >>
    /\ (l_pc \in { "loop", "accept", "done" } /\ data # NoData) => Len(echoed) = 1

\* C8 witness: LEFT_NOSE_POKE was echoed and the connection closed, with the
\* left poke flag set and not cleared since.
C8_Witness ==
    /\ l_pc = "loop"
    /\ echoed = << LEFT_NOSE_POKE >>
    /\ left_nose_poke
    /\ ~cleared

\* C9: once the monitor's stop Event is set it stays set, whatever the
\* clients, the listener and the trial loop do next.
C9_StopMonotone == [][stop => stop']_vars

\* C9 witness: stop was set, a further client has connected and written
\* since, and the trial loop has ended.
C9_Witness ==
    /\ stop
    /\ l_pc = "done"
    /\ pending # << >>
    /\ o_pc = "exit"

\* C10 (as claimed): a wait_for_* call made with a timeout that returns
\* because it observed stop returns a value that neither its success nor its
\* timeout return gives.
C10_StopDistinct ==
    (w_ret.reason = "stop" /\ w_timeout # None) =>
        \A r \in { "cond", "timeout" } : w_ret.value # ReturnValue(r)

\* a wait_for_* call is in progress
InCall == o_pc \in WaitPcs

\* this step is the return of the wait_for_* call in progress
Returns == o_pc \in WaitPcs /\ o_pc' \notin WaitPcs

\* C11: wait_for_entrance(timeout=T) returns True at the first loop test
\* that finds in_trial_zone set, however little of T has elapsed; while
\* in_trial_zone has not been set during the call and stop is not set it
\* does not return before T has elapsed, and then it returns False; and the
\* call does return.
C11_Timed == wait = "entrance" /\ w_timeout # None

C11_Step ==
    (C11_Timed /\ InCall /\ o_pc' # o_pc) =>
        /\ (o_pc = "w_cond" /\ in_trial_zone) =>
              (Returns /\ w_ret'.value = TRUE /\ w_t' = w_t)
        /\ (Returns /\ w_ret'.value = TRUE) => (o_pc = "w_cond" /\ in_trial_zone)
        /\ (Returns /\ ~w_seen /\ ~stop) =>
              (w_ret'.value = FALSE /\ w_t >= w_timeout)
        /\ (~w_seen /\ ~stop /\ o_pc = "w_time" /\ w_t >= w_timeout) =>
              (Returns /\ w_ret'.value = FALSE)

C11_State ==
    (C11_Timed /\ ~InCall) =>
        /\ w_ret.value => w_seen
        /\ (~w_ret.value /\ ~stop) => w_t >= w_timeout

C11_EntranceTimeout ==
    /\ [] C11_State
    /\ [][C11_Step]_vars
    /\ (C11_Timed /\ InCall) ~> (C11_Timed /\ ~InCall)

\* C11 witness: wait_for_entrance(timeout=MaxTimeout) has returned False
\* after the timeout elapsed, with in_trial_zone never set during the call
\* and stop not set.
C11_Witness ==
    /\ C11_Timed
    /\ w_timeout = MaxTimeout
    /\ ~InCall
    /\ w_ret = [wait |-> "entrance", reason |-> "timeout", value |-> FALSE]
    /\ ~w_seen
    /\ ~stop
    /\ w_t >= MaxTimeout

\* C12: when stop is set while a wait_for_* call is blocked (what it waits
\* for does not hold), with a timeout or without one, the call returns, and
\* the value it returns is False.
C12_Blocked == InCall /\ stop /\ ~WaitCond(wait)

C12_Step == (C12_Blocked /\ Returns) => w_ret'.value = FALSE

C12_StopUnblocks ==
    /\ [][C12_Step]_vars
    /\ C12_Blocked ~> (~InCall /\ w_ret.value = FALSE)

\* C12 witness: wait_for_leaving() without a timeout has returned from its
\* stop branch while the mouse was still in the zone.
C12_Witness ==
    /\ ~InCall
    /\ w_ret = [wait |-> "leaving", reason |-> "stop", value |-> FALSE]
    /\ w_timeout = None
    /\ in_trial_zone
    /\ stop

\* next() can return the side s in the current state
CanReturn(s) == ENABLED (AllocNext /\ sides' = Append(sides, s))

\* the allocation history holds max_repeat entries, all of one side
FullAndSame == Len(buffer) = max_repeat /\ AllSame(buffer)

\* C14 (as claimed): next() takes the forced flip only when the history is
\* full (max_repeat entries) and all its entries are one side; in every
\* other state, a history that is not full included, next() can return
\* either side.  (Stated for max_repeat >= 1, as C1 is.)
C14_Step == (max_repeat >= 1 /\ i' = i + 1 /\ forced') => FullAndSame

C14_Possible ==
    (max_repeat >= 1 /\ ~raised /\ i < MaxCalls /\ ~FullAndSame) =>
        \A s \in Range(positions) : CanReturn(s)

C14_FlipOnlyWhenFull == [] C14_Possible /\ [][C14_Step]_vars

\* C15: on a fresh allocator, whatever max_repeat is, the first next() takes
\* the random branch: either side can be returned, and the flip
\* abs(reward_position - 1) is never evaluated on reward_position = None.
C15_State ==
    /\ ~raised
    /\ ~(AllSame(buffer) /\ reward_position = None)
    /\ i = 0 => (~AllSame(buffer) /\ \A s \in Range(positions) : CanReturn(s))
    /\ i = 1 => (~forced /\ reward_position \in {0, 1})

C15_FirstCallRandom == [] C15_State

\* C15 witness: with max_repeat = 0 the first call has returned "right" from
\* the random branch.
C15_Witness ==
    /\ max_repeat = 0
    /\ i = 1
    /\ sides = << "right" >>
    /\ reward_position = 1
    /\ ~forced
    /\ ~raised

\* the code (0 or 1) of each side in Trials.positions
PositionOf(s) == IF s = positions[1] THEN 0 ELSE 1

\* the last n entries of s (all of them when s is shorter)
LastN(s, n) == SubSeq(s, IF Len(s) > n THEN Len(s) - n + 1 ELSE 1, Len(s))

\* C16 (as claimed): for every max_repeat, 0 and 1 included, after any
\* number of next() calls the history holds at most max_repeat entries, and
\* they are the sides chosen last, oldest first.
C16_BoundedRecent ==
    /\ Len(buffer) <= max_repeat
    /\ buffer = [k \in 1..Len(LastN(sides, max_repeat)) |->
                    PositionOf(LastN(sides, max_repeat)[k])]

\* C17 (as claimed): an exception raised by on() or off() does not end the
\* player's loop: the thread only ends through its loop test, after stop is
\* set, and a schedule whose on() or off() was called is followed by the
\* next step of the loop as if the call had succeeded.
C17_State ==
    \A a \in Actuators :
        /\ p_pc[a] # "failed"
        /\ p_pc[a] = "done" => c_stop[a]

C17_Step ==
    \A a \in Actuators :
        /\ (p_pc[a] = "on" /\ p_pc'[a] # "on") => p_pc'[a] = "off"
        /\ (p_pc[a] = "off" /\ p_pc'[a] # "off") => p_pc'[a] = "loop"

C17_LoopSurvives == [] C17_State /\ [][C17_Step]_vars

\* C18 (as claimed): once bind or listen has failed, the orchestrator makes
\* no allocation, enters no wait_for_* call and enqueues no schedule.
C18_Step ==
    l_pc = "bind_failed" => (i' = i /\ wait' = wait /\ nput' = nput)

C18_NoSessionAfterBindFailure == [][C18_Step]_vars

\* C19 (as claimed): a recv or sendall that fails on one connection leaves
\* stop as it is and the listener in its loop: after startup, as long as
\* stop is not set, the listener is accepting or handling a connection.
C19_KeepsAccepting ==
    (l_pc \notin { "bind", "bind_failed" } /\ ~stop) =>
        l_pc \in { "loop", "accept", "apply", "send" }

\* C13 (as claimed): a player that makes its between-schedules test
\* ("while self.running()") after a client's byte has set the monitor's
\* stop leaves its loop at that test: it takes no further schedule.
C13_Step ==
    \A a \in Actuators :
        (stop /\ p_pc[a] = "loop" /\ p_pc'[a] # "loop") => p_pc'[a] = "done"

C13_PlayersObserveStop == [][C13_Step]_vars

\* every thread the "with" statement started has ended and is joined
AllJoined == sut = WithOrder[1] /\ h_pc = "exited"

\* C20 (as claimed): once the body of the "with" statement is left, by the
\* loop ending after a STOP byte or by an exception with no STOP received,
\* the threads go on to their end and the joins return with no further
\* client connection: until every thread is joined some thread of the
\* program can take a step, and with stop set the listener is never left
\* waiting for a client.
C20_ScopeExits ==
    /\ (Leaving /\ ~AllJoined) => CanProceed
    /\ stop => ~(l_pc = "accept" /\ pending = << >>)
\* C21: every suspension point of a scheduler is cancellable by its stop
\* signal: once end() has set stop and waits in join, the scheduler thread can
\* always take a step or has ended, so that end() returns -- also when the
\* schedule it has taken waits on a gate that is never set, with no timeout.
C21_GateWaitCancellable ==
    h_pc = "join" => ENABLED (Join \/ PlayerStep(sut))

\* C22: the payload of a speaker command travels with the command: each
\* on() and off() of the speaker acts on the sound that was current when its
\* schedule was enqueued, whatever the assignments to speaker.sound since.
C22_Step ==
    Len(calls'["speaker"]) = Len(calls["speaker"]) + 1
        => calls'["speaker"][Len(calls'["speaker"])].arg = cur["speaker"].put_sound

C22_PayloadTravels == [][C22_Step]_vars

\* main is past the outcome of the current trial
AfterOutcome == (InCall /\ wait = "leaving") \/ o_pc \in { "iti", "restore" }

\* C23: in every trial that reaches the inter-trial interval the interval is
\* 5 s if and only if the outcome is correct and 15 s otherwise; a trial with
\* no poke within the response window has outcome "time out", reaction time
\* exactly 10 s and interval 15 s.
C23_State ==
    /\ o_pc = "restore" =>
          /\ slept \in { ItiCorrect, ItiOther }
          /\ slept = ItiCorrect <=> outcome = "correct"
    /\ (AfterOutcome /\ ~nose_poke) => (outcome = "time out" /\ t = PokeTimeout)
    /\ (o_pc = "restore" /\ outcome = "time out") => slept = ItiOther

C23_Step ==
    (o_pc = "iti" /\ o_pc' # o_pc)
        => slept' = IF outcome = "correct" THEN 5 ELSE 15

C23_InterTrialInterval == [] C23_State /\ [][C23_Step]_vars

\* a trial whose response window ran out, after its inter-trial interval
C23_Witness ==
    /\ o_pc = "restore"
    /\ ~aborted
    /\ ~nose_poke
    /\ outcome = "time out"
    /\ t = 10
    /\ slept = 15

\* s is a prefix of u
Prefix(s, u) == Len(s) <= Len(u) /\ SubSeq(u, 1, Len(s)) = s

ExitAtEntrance == o_pc = "exit" /\ w_ret.wait = "entrance"

\* C25: if stop is set when wait_for_entrance has returned, main leaves its
\* loop without starting that trial: the poke flags are not cleared, no cue
\* command is enqueued on any actuator and no outcome is produced.
C25_Step ==
    /\ (o_pc = "chk_run" /\ stop /\ o_pc' # o_pc) => o_pc' = "exit"
    /\ (o_pc' = "exit") =>
          /\ left_nose_poke => left_nose_poke'
          /\ right_nose_poke => right_nose_poke'
          /\ Q' = Q /\ nput' = nput
          /\ outcome' = outcome

C25_State ==
    ExitAtEntrance =>
        /\ outcome = "none" /\ side = "none" /\ slept = 0
        /\ nput["speaker"] = 2 * (i - 1)
        /\ nput["L_light"] + nput["R_light"] = i - 1

C25_StopAtEntrance == [] C25_State /\ [][C25_Step]_vars

\* the loop left after a wait_for_entrance that stop ended, a poke flag still
\* set
C25_Witness ==
    /\ ExitAtEntrance
    /\ w_ret.reason = "stop"
    /\ left_nose_poke
    /\ outcome = "none"
    /\ Q["speaker"] = << >>

\* the light above the port of a side
LightAt(s) == CASE s = "left" -> "L_light" [] s = "right" -> "R_light"

OtherSide(s) == CASE s = "left" -> "right" [] s = "right" -> "left"

CuePcs == { "cue_noise", "cue_swap", "cue_light", "cue_tone" }

\* C26: in every started trial the cue light command is enqueued on the light
\* of the side opposite to the rewarded side and never on the rewarded side's
\* light; the cue enqueues are fire-and-forget: main goes on to
\* wait_for_nose_poke whether or not any player has taken a command.
C26_Step ==
    /\ (o_pc = "cue_light" /\ o_pc' # o_pc) =>
          /\ Len(Q'[LightAt(OtherSide(correct))])
                = Len(Q[LightAt(OtherSide(correct))]) + 1
          /\ Q'[LightAt(correct)] = Q[LightAt(correct)]
    /\ (o_pc # "cue_light") =>
          (Q'["L_light"] = Q["L_light"] /\ Q'["R_light"] = Q["R_light"])

C26_State ==
    /\ o_pc \in CuePcs => ENABLED (CueNoise \/ CueSwap \/ CueLight \/ CueTone)
    /\ (InCall /\ wait = "poke") =>
          /\ Len(Q["speaker"]) = 2 * i
          /\ Len(Q["L_light"]) + Len(Q["R_light"]) = i

C26_CueLightOpposite == [] C26_State /\ [][C26_Step]_vars

\* main inside wait_for_nose_poke of a trial rewarded on the left, the three
\* cue commands still in their queues
C26_Witness ==
    /\ InCall /\ wait = "poke"
    /\ correct = "left"
    /\ Len(Q["R_light"]) = 1
    /\ Q["L_light"] = << >>
    /\ Len(Q["speaker"]) = 2

\* C27: in every variant of main the response timer is started when the
\* response wait starts, after the cue commands and the cue pause, so the
\* reaction time recorded for a poked trial is the time spent waiting for the
\* poke and never includes the cue pause.
C27_Step ==
    (o_pc = "outcome" /\ o_pc' # o_pc /\ nose_poke) => t' = w_t

C27_TimerAfterCue == [][C27_Step]_vars

\* the listener is past the transition of the byte in data
Applied(d) == data = d /\ l_pc \in { "send", "loop", "accept", "done" }

\* the poke flag of a side
FlagOf(s) == CASE s = "left" -> left_nose_poke [] s = "right" -> right_nose_poke

\* C28: a poke flag set before a trial's clear_nose_poke never determines that
\* trial's outcome: each flag is lowered by the call, from then on a flag
\* rises only when the listener applies the byte of that side, and the
\* outcome is produced after the call from the flags as they are then.
C28_Step ==
    /\ (o_pc = "clear_left" /\ o_pc' # o_pc) => ~left_nose_poke'
    /\ (o_pc = "clear_right" /\ o_pc' # o_pc) => ~right_nose_poke'
    /\ (~left_nose_poke /\ left_nose_poke') =>
          (l_pc = "apply" /\ data = LEFT_NOSE_POKE /\ l_pc' = "send")
    /\ (~right_nose_poke /\ right_nose_poke') =>
          (l_pc = "apply" /\ data = RIGHT_NOSE_POKE /\ l_pc' = "send")
    /\ (outcome' # outcome /\ outcome' # "none") => o_pc = "outcome"
    /\ (outcome' # outcome /\ outcome' = "correct") => FlagOf(correct)
    /\ (outcome' # outcome /\ outcome' = "incorrect") => FlagOf(OtherSide(correct))

C28_State ==
    /\ (o_pc = "clear_right" /\ cleared) => ~left_nose_poke
    /\ (o_pc = "cue_noise" /\ cleared) => ~right_nose_poke

C28_StalePokesIgnored == [] C28_State /\ [][C28_Step]_vars

\* clear_nose_poke has just returned; the last byte the listener applied, a
\* right poke, came before the right flag was cleared, and the flag is down
C28_Witness ==
    /\ o_pc = "cue_noise"
    /\ cleared
    /\ Applied(RIGHT_NOSE_POKE)
    /\ ~right_nose_poke

\* the player of a takes a schedule from its queue in this step
Takes(a) == p_pc[a] = "poll" /\ p_pc'[a] = "wait"

\* C29: once end() has set a scheduler's own stop, the scheduler begins at
\* most one further command, and only if it was already past its running()
\* test; every command still in its queue when the loop exits is never
\* executed, a reward command included.
C29_Step ==
    \A a \in Actuators :
        /\ (c_stop[a] /\ Takes(a)) => end_phase = "poll"
        /\ (c_stop[a] /\ p_pc[a] = "loop" /\ p_pc'[a] # "loop") => p_pc'[a] = "done"
        /\ p_pc[a] = "done" =>
              (p_pc'[a] = "done" /\ calls'[a] = calls[a] /\ Q'[a] = Q[a])

C29_State ==
    \A a \in Actuators :
        /\ (c_stop[a] /\ end_phase = "loop") => p_pc[a] \in { "loop", "done" }
        /\ (c_stop[a] /\ end_phase = "poll" /\ p_pc[a] = "poll") =>
              Len(calls[a]) = 2 * (nput[a] - Len(Q[a]))
        /\ (c_stop[a] /\ end_phase \in { "wait", "on", "off" }) =>
              p_pc[a] # "poll"

C29_AtMostOneAfterStop == [] C29_State /\ [][C29_Step]_vars

\* end() has returned on a dispenser whose player was past its running() test
\* when stop was set: the one command it then took was played, two are left
\* in the queue
C29_Witness ==
    /\ sut = "L_dispenser"
    /\ h_pc = "exited"
    /\ end_phase = "poll"
    /\ nput[sut] = 3
    /\ Len(calls[sut]) = 2
    /\ Len(Q[sut]) = 2

\* the last wait_for_* call that returned was wait_for_leaving, from the
\* branch named by reason
LeftBy(reason) == w_ret.wait = "leaving" /\ w_ret.reason = reason

\* C30: a new trial is started only after the exit of the previous trial was
\* observed: trial k+1 starts only when the last wait to return, after the
\* waits of trial k, is a wait_for_leaving that returned True, which it does
\* only on reading in_trial_zone unset; if wait_for_leaving ends because of
\* stop, no further trial is started.
C30_Step ==
    /\ (i >= 1 /\ i' = i + 1) => (LeftBy("cond") /\ w_ret.value)
    /\ (InCall /\ wait = "leaving" /\ Returns /\ w_ret'.reason = "cond")
          => ~in_trial_zone
    /\ LeftBy("stop") => (i' = i /\ o_pc' # "next")

C30_NextAfterLeaving == [][C30_Step]_vars

\* the second trial started, after a wait_for_leaving that returned True
C30_Witness ==
    /\ i = 2
    /\ InCall /\ wait = "entrance"
    /\ LeftBy("cond")
    /\ outcome = "none"

====
